---- MODULE Spec2Model ----
(***************************************************************************)
(* Model of krux_sqs.sqs.Sqs: the queue cache (_get_queue) and the three   *)
(* public operations get_messages, delete_messages and send_messages, with *)
(* the boto3 resource / queue objects as a nondeterministic environment    *)
(* (every provider call either returns or raises).                         *)
(***************************************************************************)
EXTENDS Integers, Sequences, FiniteSets, TLC

\* ---------------------------------------------------------------- bounds
MaxOps == 2          \* operations started on one client
MaxMsgs == 22        \* longest list given to send_messages
MaxDelete == 11      \* longest list given to delete_messages
MaxRecv == 2         \* most messages one receive_messages call returns
IdSpace == 4         \* distinct values of the 8-character random id

\* ------------------------------------------------------ program constants
MAX_RECEIVE_MESSAGES_NUM == 10
MAX_SEND_MESSAGES_NUM == 10
RECEIVE_MESSAGES_TIMEOUT == 10
DEFAULT_MESSAGE_ATTRIBUTE_NAME == <<"All">>

\* group_id=None, and the "no entry" result of dict.get(queue_name, None)
None == 0 - 1

\* the callers of one client; Caller is the one of the sequential specification
Procs == {"c1", "c2"}
Caller == "c1"
Names == {"A", "B"}

Min(a, b) == IF a < b THEN a ELSE b

\* ------------------------------------------------------------ Python values
\* A value is tagged with its Python type.  A str carries how its text was
\* made: "json" is the text simplejson.dumps gives for the dict val, "raw" is
\* a text that is not a JSON document.
PyDict(v) == [type |-> "dict", enc |-> "obj", val |-> v]
PyStr(e, v) == [type |-> "str", enc |-> e, val |-> v]
PyInt(v) == [type |-> "int", enc |-> "obj", val |-> v]

dumps(m) == PyStr("json", m.val)
CanLoad(s) == s.enc = "json"
loads(s) == PyDict(s.val)

\* str(uuid.uuid4())[:8]: the k-th id drawn after the generator state seed
\* (ids may collide, nothing checks them for uniqueness)
get_random_id(seed, k) == (seed + k) % IdSpace

VARIABLES
    client,      \* the argument given to Sqs(boto=...) and what came of it
    queues,      \* self._queues: name -> handle (None: no entry)
    handles,     \* number of queue objects the resource has handed out
    lookupLog,   \* per name, the outcomes of get_queue_by_name so far
    nops,        \* operations started
    pc,          \* per caller, the position inside the running operation
    op,          \* per caller, the running (or last) operation and its arguments
    entries,     \* per caller, the local 'entries'
    idx,         \* per caller, the loop variable i of send_messages
    q,           \* per caller, the value _get_queue returned
    fetched,     \* per caller, the value get_queue_by_name returned, not yet stored
    pending,     \* per caller, the send calls issued that have not returned yet
    calls,       \* per caller, the provider calls of the operation that have ended
    debug,       \* per caller, the logger.debug calls the operation has made
    status,      \* per caller, how the operation ended
    raw,         \* per caller, the local 'raw_messages'
    result,      \* per caller, the list get_messages returned
    queues0      \* per caller, self._queues when the operation was called

vars == <<client, queues, handles, lookupLog, nops, pc, op, entries, idx, q, fetched,
          pending, calls, debug, status, raw, result, queues0>>

NoOp == [fn |-> "none", queue_name |-> "A", messages |-> <<>>, group_id |-> None,
         attrs |-> <<>>, num_msg |-> 0, timeout |-> 0, is_json |-> FALSE, seed |-> 0]

\* before Sqs(...) is called there is no client
Init ==
    /\ client = [boto |-> "none", state |-> "none"]
    /\ queues = [n \in Names |-> None]
    /\ handles = 0
    /\ lookupLog = [n \in Names |-> <<>>]
    /\ nops = 0
    /\ pc = [p \in Procs |-> "idle"]
    /\ op = [p \in Procs |-> NoOp]
    /\ entries = [p \in Procs |-> <<>>]
    /\ idx = [p \in Procs |-> 0]
    /\ q = [p \in Procs |-> None]
    /\ fetched = [p \in Procs |-> None]
    /\ pending = [p \in Procs |-> <<>>]
    /\ calls = [p \in Procs |-> <<>>]
    /\ debug = [p \in Procs |-> <<>>]
    /\ status = [p \in Procs |-> "none"]
    /\ raw = [p \in Procs |-> <<>>]
    /\ result = [p \in Procs |-> <<>>]
    /\ queues0 = [p \in Procs |-> queues]

\* ------------------------------------------------------------ records
Call(fn, name, h, ents, params, ok) ==
    [fn |-> fn, QueueName |-> name, queue |-> h, Entries |-> ents,
     params |-> params, ok |-> ok]

\* self._logger.debug(msg, ...): the template and its arguments (a count and a
\* queue name, or a list)
Debug(msg, count, name, list) == [msg |-> msg, count |-> count, name |-> name, list |-> list]

\* What every operation does on entry: a new frame.
Begin(p, o) ==
    /\ client.state = "Sqs"
    /\ UNCHANGED client
    /\ pc[p] = "idle"
    /\ nops < MaxOps
    /\ nops' = nops + 1
    /\ op' = [op EXCEPT ![p] = o]
    /\ pending' = [pending EXCEPT ![p] = <<>>]
    /\ calls' = [calls EXCEPT ![p] = <<>>]
    /\ idx' = [idx EXCEPT ![p] = 0]
    /\ q' = [q EXCEPT ![p] = None]
    /\ fetched' = [fetched EXCEPT ![p] = None]
    /\ raw' = [raw EXCEPT ![p] = <<>>]
    /\ result' = [result EXCEPT ![p] = <<>>]
    /\ queues0' = [queues0 EXCEPT ![p] = queues]


\* ------------------------------------------------------------ inputs
\* A list of n messages for send_messages: dicts and strs alternating from
\* parity k, message i carrying the payload i; position bad (0: none) holds
\* an int instead.
SendInput(n, k, bad) ==
    [i \in 1..n |-> IF i = bad THEN PyInt(i)
                    ELSE IF (i + k) % 2 = 0 THEN PyDict(i) ELSE PyStr("raw", i)]

\* how the caller varies group_id, the id generator and the dict/str parity
SendVariants ==
    { [group_id |-> None, seed |-> 0, k |-> 0],
      [group_id |-> 0, seed |-> 3, k |-> 1],
      [group_id |-> 5, seed |-> 0, k |-> 1] }

\* every length up to MaxMsgs with valid messages only, and lists of one
\* message, of one more than a chunk and of MaxMsgs with an int at any position
SendInputs ==
    { [messages |-> SendInput(n, v.k, 0), group_id |-> v.group_id, seed |-> v.seed] :
        n \in 0..MaxMsgs, v \in SendVariants }
    \cup
    { [messages |-> SendInput(n, 0, bad), group_id |-> None, seed |-> 0] :
        n \in {1, MAX_SEND_MESSAGES_NUM + 1, MaxMsgs}, bad \in 1..MaxMsgs }

\* A message as get_messages returns it (a dict with these six keys).
Message(i, body) ==
    [ReceiptHandle |-> <<"rh", i>>, MessageId |-> <<"id", i>>, Body |-> body,
     MessageAttributes |-> <<"ma", i>>, QueueUrl |-> <<"url", i>>,
     Attributes |-> <<"at", i>>]

DeleteInputs ==
    { [i \in 1..n |-> Message(i, PyStr("raw", i))] : n \in 0..MaxDelete }
    \cup { [i \in 1..n |-> Message(5 + i, PyDict(i))] : n \in 1..2 }

\* A message as boto3 returns it (an object with these six attributes).
RawMessage(i, body) ==
    [receipt_handle |-> <<"rh", i>>, message_id |-> <<"id", i>>, body |-> body,
     message_attributes |-> <<"ma", i>>, queue_url |-> <<"url", i>>,
     attributes |-> <<"at", i>>]

\* The lists receive_messages can return: k messages whose bodies are JSON
\* texts, except the one at position bad (0: none), which is not.
RawInputs ==
    { [i \in 1..k |-> RawMessage(i, PyStr(IF i = bad THEN "raw" ELSE "json", i))] :
        k \in 0..MaxRecv, bad \in 0..MaxRecv }

ReceiveParams ==
    { [attrs |-> DEFAULT_MESSAGE_ATTRIBUTE_NAME, num_msg |-> MAX_RECEIVE_MESSAGES_NUM,
       timeout |-> RECEIVE_MESSAGES_TIMEOUT],
      [attrs |-> <<>>, num_msg |-> 2, timeout |-> 4] }

\* ------------------------------------------------------------ __init__
\* what can be given as boto: a krux_boto Boto3, a krux_boto Boto, a mock
BotoArgs == {"Boto3", "Boto", "MagicMock"}

\* variant: the type of boto is not checked
IsBoto3Any(boto) == TRUE

\* isinstance(boto, Boto3)
IsBoto3(boto) == boto = "Boto3"

\* Sqs(boto=...): NotImplementedError, or a client with self._queues = {}
SqsInit ==
    /\ client.state = "none"
    /\ \E boto \in BotoArgs :
         client' = [boto |-> boto,
                    state |-> IF IsBoto3(boto) THEN "Sqs" ELSE "NotImplementedError"]
    /\ queues' = [n \in Names |-> None]
    /\ UNCHANGED <<handles, lookupLog, nops, pc, op, entries, idx, q, fetched,
                   pending, calls, debug, status, raw, result, queues0>>

\* ------------------------------------------------------------ _get_queue
\* variant: the cache is never consulted
CacheMissAlways(qs, name) == TRUE

\* if self._queues.get(queue_name, None) is None
CacheMiss(qs, name) == qs[name] = None

GetQueueCall(p) ==
    /\ \E name \in Names :
         Begin(p, [NoOp EXCEPT !.fn = "_get_queue", !.queue_name = name])
    /\ pc' = [pc EXCEPT ![p] = "get_queue"]
    /\ status' = [status EXCEPT ![p] = "running"]
    /\ entries' = [entries EXCEPT ![p] = <<>>]
    /\ debug' = [debug EXCEPT ![p] = <<>>]
    /\ UNCHANGED <<queues, handles, lookupLog>>

\* the test of the cache
GetQueueCheck(p) ==
    /\ pc[p] = "get_queue"
    /\ pc' = [pc EXCEPT ![p] =
                IF CacheMiss(queues, op[p].queue_name) THEN "lookup" ELSE "return_queue"]
    /\ UNCHANGED <<client, queues, handles, lookupLog, nops, op, entries, idx, q, fetched,
                   pending, calls, debug, status, raw, result, queues0>>

\* variant: the failure is remembered, an empty placeholder is stored
LookupRaisedCached(qs, name) == [qs EXCEPT ![name] = 0]

\* self._queues when get_queue_by_name raised: the right-hand side of the
\* assignment raised, so nothing was assigned
LookupRaised(qs, name) == qs

\* self._resource.get_queue_by_name(QueueName=queue_name): a new queue object,
\* or an exception that ends the operation
GetQueueByName(p) ==
    /\ pc[p] = "lookup"
    /\ \E ok \in BOOLEAN :
         /\ lookupLog' = [lookupLog EXCEPT ![op[p].queue_name] =
                            Append(@, IF ok THEN "ok" ELSE "fail")]
         /\ calls' = [calls EXCEPT ![p] =
                        Append(@, Call("get_queue_by_name", op[p].queue_name, None,
                                       <<>>, <<>>, ok))]
         /\ IF ok
              THEN /\ handles' = handles + 1
                   /\ fetched' = [fetched EXCEPT ![p] = handles + 1]
                   /\ pc' = [pc EXCEPT ![p] = "store"]
                   /\ UNCHANGED <<queues, status>>
              ELSE /\ pc' = [pc EXCEPT ![p] = "idle"]
                   /\ status' = [status EXCEPT ![p] = "ProviderError"]
                   /\ queues' = LookupRaised(queues, op[p].queue_name)
                   /\ UNCHANGED <<handles, fetched>>
    /\ UNCHANGED <<client, nops, op, entries, idx, q, pending, debug, raw, result,
                   queues0>>

\* variant: self._queues.setdefault(queue_name, ...), the first store is kept
StoredIfAbsent(qs, name, h) == IF qs[name] = None THEN [qs EXCEPT ![name] = h] ELSE qs

\* variant: the queue object is returned but not kept
StoredNowhere(qs, name, h) == qs

\* variant: the dict is replaced by one holding only the new entry
StoredAlone(qs, name, h) == [n \in Names |-> IF n = name THEN h ELSE None]

\* variant: one shared queue object, stored under every name
StoredUnderAll(qs, name, h) == [n \in Names |-> h]

\* self._queues[queue_name] = ... : the dict after the assignment
Stored(qs, name, h) == [qs EXCEPT ![name] = h]

StoreQueue(p) ==
    /\ pc[p] = "store"
    /\ queues' = Stored(queues, op[p].queue_name, fetched[p])
    /\ pc' = [pc EXCEPT ![p] = "return_queue"]
    /\ UNCHANGED <<client, handles, lookupLog, nops, op, entries, idx, q, fetched, pending,
                   calls, debug, status, raw, result, queues0>>

\* where the caller of _get_queue goes on; n is len(entries), and
\* range(0, 0, MAX_SEND_MESSAGES_NUM) has no element
AfterGetQueue(fn, n) ==
    CASE fn = "get_messages" -> "receive"
      [] fn = "delete_messages" -> "delete"
      [] fn = "send_messages" /\ n > 0 -> "send"
      [] OTHER -> "idle"

\* variant: the return statement is missing
ReturnedNothing(qs, name) == None

\* what _get_queue returns: self._queues[queue_name]
ReturnedQueue(qs, name) == qs[name]

\* return self._queues[queue_name]
ReturnQueue(p) ==
    /\ pc[p] = "return_queue"
    /\ q' = [q EXCEPT ![p] = ReturnedQueue(queues, op[p].queue_name)]
    /\ pc' = [pc EXCEPT ![p] = AfterGetQueue(op[p].fn, Len(entries[p]))]
    /\ status' = [status EXCEPT ![p] =
                    IF AfterGetQueue(op[p].fn, Len(entries[p])) = "idle" THEN "ok" ELSE @]
    /\ UNCHANGED <<client, queues, handles, lookupLog, nops, op, entries, idx, fetched,
                   pending, calls, debug, raw, result, queues0>>


\* ------------------------------------------------------------ get_messages
GetMessagesCall(p) ==
    /\ \E name \in Names, par \in ReceiveParams, js \in BOOLEAN :
         Begin(p, [NoOp EXCEPT !.fn = "get_messages", !.queue_name = name,
                               !.attrs = par.attrs, !.num_msg = par.num_msg,
                               !.timeout = par.timeout, !.is_json = js])
    /\ pc' = [pc EXCEPT ![p] = "get_queue"]
    /\ status' = [status EXCEPT ![p] = "running"]
    /\ entries' = [entries EXCEPT ![p] = <<>>]
    /\ debug' = [debug EXCEPT ![p] = <<>>]
    /\ UNCHANGED <<queues, handles, lookupLog>>

\* variant: the body is never parsed
ToMessageRaw(msg, is_json) ==
    [ReceiptHandle |-> msg.receipt_handle, MessageId |-> msg.message_id,
     Body |-> msg.body,
     MessageAttributes |-> msg.message_attributes, QueueUrl |-> msg.queue_url,
     Attributes |-> msg.attributes]

\* the body of the loop over raw_messages
ToMessage(msg, is_json) ==
    [ReceiptHandle |-> msg.receipt_handle, MessageId |-> msg.message_id,
     Body |-> IF is_json THEN loads(msg.body) ELSE msg.body,
     MessageAttributes |-> msg.message_attributes, QueueUrl |-> msg.queue_url,
     Attributes |-> msg.attributes]

\* variant: a body that cannot be parsed is noticed only on the first message
LoadFailsFirst(msgs, is_json) == is_json /\ Len(msgs) >= 1 /\ ~CanLoad(msgs[1].body)

\* simplejson.loads raises on some message of the list
LoadFails(msgs, is_json) == is_json /\ \E i \in 1..Len(msgs) : ~CanLoad(msgs[i].body)

\* variant: the defaults are passed whatever the caller gave
ReceiveArgsDefault(o) ==
    <<DEFAULT_MESSAGE_ATTRIBUTE_NAME, <<MAX_RECEIVE_MESSAGES_NUM, RECEIVE_MESSAGES_TIMEOUT>>>>

\* MessageAttributeNames, MaxNumberOfMessages and WaitTimeSeconds of the call
ReceiveArgs(o) == <<o.attrs, <<o.num_msg, o.timeout>>>>

\* self._logger.debug('Recieved %s messages from %s queue', len(raw_messages),
\* queue_name): what get_messages logs once receive_messages has returned
ReceiveLog(msgs, name) ==
    <<Debug("Recieved %s messages from %s queue", Len(msgs), name, <<>>)>>

\* queue.receive_messages(...), then the debug line and the loop
ReceiveMessages(p) ==
    /\ pc[p] = "receive"
    /\ pc' = [pc EXCEPT ![p] = "idle"]
    /\ \/ /\ calls' = [calls EXCEPT ![p] =
                         Append(@, Call("receive_messages", op[p].queue_name, q[p], <<>>,
                                        ReceiveArgs(op[p]), FALSE))]
          /\ status' = [status EXCEPT ![p] = "ProviderError"]
          /\ UNCHANGED <<debug, raw, result>>
       \/ \E msgs \in RawInputs :
            /\ raw' = [raw EXCEPT ![p] = msgs]
            /\ calls' = [calls EXCEPT ![p] =
                           Append(@, Call("receive_messages", op[p].queue_name, q[p], <<>>,
                                          ReceiveArgs(op[p]), TRUE))]
            /\ debug' = [debug EXCEPT ![p] = @ \o ReceiveLog(msgs, op[p].queue_name)]
            /\ IF LoadFails(msgs, op[p].is_json)
                 THEN /\ status' = [status EXCEPT ![p] = "JSONDecodeError"]
                      /\ UNCHANGED result
                 ELSE /\ status' = [status EXCEPT ![p] = "ok"]
                      /\ result' = [result EXCEPT ![p] =
                                      [i \in 1..Len(msgs) |-> ToMessage(msgs[i], op[p].is_json)]]
    /\ UNCHANGED <<client, queues, handles, lookupLog, nops, op, entries, idx, q, fetched,
                   pending, queues0>>

\* ------------------------------------------------------------ delete_messages
\* variant: len(messages) >= 0
DeleteGuardAlways(messages) == Len(messages) >= 0

\* if len(messages) > 0
DeleteGuard(messages) == Len(messages) > 0

\* variant: the entries are built from reversed(messages)
DeleteEntriesReversed(messages) ==
    [i \in 1..Len(messages) |->
        [Id |-> messages[Len(messages) + 1 - i].MessageId,
         ReceiptHandle |-> messages[Len(messages) + 1 - i].ReceiptHandle]]

\* [{'Id': msg['MessageId'], 'ReceiptHandle': msg['ReceiptHandle']} for msg in messages]
DeleteEntries(messages) ==
    [i \in 1..Len(messages) |->
        [Id |-> messages[i].MessageId, ReceiptHandle |-> messages[i].ReceiptHandle]]

\* what delete_messages logs before it resolves the queue (the whole entry
\* list), or instead of doing anything (an empty list)
DeleteLog(messages) ==
    IF DeleteGuard(messages)
      THEN <<Debug("Removing following messages: %s", 0, "", DeleteEntries(messages))>>
      ELSE <<Debug("Messages list is empty. Not deleting any messages.", 0, "", <<>>)>>

\* delete_messages called with one of the lists of inputs
DeleteMessagesOf(p, inputs) ==
    /\ \E name \in Names, messages \in inputs :
         /\ Begin(p, [NoOp EXCEPT !.fn = "delete_messages", !.queue_name = name,
                                  !.messages = messages])
         /\ IF DeleteGuard(messages)
              THEN /\ entries' = [entries EXCEPT ![p] = DeleteEntries(messages)]
                   /\ debug' = [debug EXCEPT ![p] = DeleteLog(messages)]
                   /\ pc' = [pc EXCEPT ![p] = "get_queue"]
                   /\ status' = [status EXCEPT ![p] = "running"]
              ELSE /\ entries' = [entries EXCEPT ![p] = <<>>]
                   /\ debug' = [debug EXCEPT ![p] = DeleteLog(messages)]
                   /\ pc' = [pc EXCEPT ![p] = "idle"]
                   /\ status' = [status EXCEPT ![p] = "ok"]
    /\ UNCHANGED <<queues, handles, lookupLog>>

DeleteMessagesCall(p) == DeleteMessagesOf(p, DeleteInputs)

\* variant: the call is wrapped in a try/except that drops the exception
DeleteOutcomeSwallowed(ok) == "ok"

\* how delete_messages ends: there is no handler around the provider call
DeleteOutcome(ok) == IF ok THEN "ok" ELSE "ProviderError"

\* queue.delete_messages(Entries=entries)
DeleteMessages(p) ==
    /\ pc[p] = "delete"
    /\ pc' = [pc EXCEPT ![p] = "idle"]
    /\ \E ok \in BOOLEAN :
         /\ calls' = [calls EXCEPT ![p] =
                        Append(@, Call("delete_messages", op[p].queue_name, q[p],
                                       entries[p], <<>>, ok))]
         /\ status' = [status EXCEPT ![p] = DeleteOutcome(ok)]
    /\ UNCHANGED <<client, queues, handles, lookupLog, nops, op, entries, idx, q, fetched,
                   pending, debug, raw, result, queues0>>


\* ------------------------------------------------------------ send_messages
\* variant: the emptiness test is dropped
SendGuardAlways(messages) == TRUE

\* if messages
SendGuard(messages) == Len(messages) > 0

\* isinstance(message, dict) or isinstance(message, str), else TypeError
IsValidMessage(m) == m.type \in {"dict", "str"}

\* variant: only the messages of the first chunk are checked
AllValidFirstChunk(messages) ==
    \A i \in 1..Min(Len(messages), MAX_SEND_MESSAGES_NUM) : IsValidMessage(messages[i])

\* the loop raises on the first message that is neither, wherever it is
AllValid(messages) == \A i \in 1..Len(messages) : IsValidMessage(messages[i])

\* msg = simplejson.dumps(message) for a dict, message itself for a str
MessageBody(m) == IF m.type = "dict" THEN dumps(m) ELSE m

\* variant: 'if group_id:', which drops a falsy group id
EntryTruthy(id, body, group_id) ==
    IF group_id # None /\ group_id # 0
      THEN [Id |-> id, MessageBody |-> body, MessageGroupId |-> group_id]
      ELSE [Id |-> id, MessageBody |-> body]

\* entry = {'Id': ..., 'MessageBody': msg}, with 'MessageGroupId' when
\* group_id is not None
Entry(id, body, group_id) ==
    IF group_id # None
      THEN [Id |-> id, MessageBody |-> body, MessageGroupId |-> group_id]
      ELSE [Id |-> id, MessageBody |-> body]

SendEntries(messages, group_id, seed) ==
    [i \in 1..Len(messages) |->
        Entry(get_random_id(seed, i), MessageBody(messages[i]), group_id)]

\* variant: entries[i:i + self.MAX_SEND_MESSAGES_NUM - 1]
ChunkShort(ents, i) == SubSeq(ents, i + 1, Min(i + MAX_SEND_MESSAGES_NUM - 1, Len(ents)))

\* chunk = entries[i:i + self.MAX_SEND_MESSAGES_NUM]
Chunk(ents, i) == SubSeq(ents, i + 1, Min(i + MAX_SEND_MESSAGES_NUM, Len(ents)))

\* six.moves.range(0, len(entries), self.MAX_SEND_MESSAGES_NUM): the next i
NextStart(i) == i + MAX_SEND_MESSAGES_NUM

\* variant: range(0, len(entries) + 1, ...), one more turn when len(entries) is
\* a multiple of the chunk size
AfterChunkInclusive(i, n, ok) ==
    IF ~ok THEN "raise" ELSE IF NextStart(i) <= n THEN "send" ELSE "return"

\* variant: a chunk whose call raised is sent again
AfterChunkRetry(i, n, ok) ==
    IF ~ok THEN "send" ELSE IF NextStart(i) < n THEN "send" ELSE "return"

\* variant: the exception of q.send_messages is swallowed
AfterChunkSwallow(i, n, ok) ==
    IF NextStart(i) < n THEN "send" ELSE "return"

\* where send_messages goes after q.send_messages returned (ok) or raised
AfterChunk(i, n, ok) ==
    IF ~ok THEN "raise" ELSE IF NextStart(i) < n THEN "send" ELSE "return"

\* variant: the debug call sits inside the loop over the chunks
SendLogPerChunk(ents) ==
    [j \in 1..((Len(ents) + MAX_SEND_MESSAGES_NUM - 1) \div MAX_SEND_MESSAGES_NUM) |->
        Debug("Sending following messages: %s", 0, "",
              Chunk(ents, MAX_SEND_MESSAGES_NUM * (j - 1)))]

\* self._logger.debug('Sending following messages: %s', entries), once, before
\* the queue is resolved and the loop over the chunks starts
SendLog(ents) == <<Debug("Sending following messages: %s", 0, "", ents)>>

\* self._logger.debug('Message is empty. Not sending any messages.')
SendLogEmpty == <<Debug("Message is empty. Not sending any messages.", 0, "", <<>>)>>

\* send_messages called with one of the argument lists of inputs
SendMessagesOf(p, inputs) ==
    /\ \E name \in Names, in \in inputs :
       LET messages == in.messages
           gid == in.group_id
           seed == in.seed
       IN
         /\ Begin(p, [NoOp EXCEPT !.fn = "send_messages", !.queue_name = name,
                                  !.messages = messages, !.group_id = gid, !.seed = seed])
         /\ IF SendGuard(messages)
              THEN IF AllValid(messages)
                     THEN /\ entries' = [entries EXCEPT ![p] =
                                           SendEntries(messages, gid, seed)]
                          /\ debug' = [debug EXCEPT ![p] =
                                         SendLog(SendEntries(messages, gid, seed))]
                          /\ pc' = [pc EXCEPT ![p] = "get_queue"]
                          /\ status' = [status EXCEPT ![p] = "running"]
                     ELSE /\ entries' = [entries EXCEPT ![p] = <<>>]
                          /\ debug' = [debug EXCEPT ![p] = <<>>]
                          /\ pc' = [pc EXCEPT ![p] = "idle"]
                          /\ status' = [status EXCEPT ![p] = "TypeError"]
              ELSE /\ entries' = [entries EXCEPT ![p] = <<>>]
                   /\ debug' = [debug EXCEPT ![p] = SendLogEmpty]
                   /\ pc' = [pc EXCEPT ![p] = "idle"]
                   /\ status' = [status EXCEPT ![p] = "ok"]
    /\ UNCHANGED <<queues, handles, lookupLog>>

SendMessagesCall(p) == SendMessagesOf(p, SendInputs)

\* one turn of the loop: q.send_messages(Entries=chunk) is called
SendChunk(p) ==
    /\ pc[p] = "send"
    /\ pending' = [pending EXCEPT ![p] =
                     Append(@, [queue |-> q[p], Entries |-> Chunk(entries[p], idx[p])])]
    /\ pc' = [pc EXCEPT ![p] = "sending"]
    /\ UNCHANGED <<client, queues, handles, lookupLog, nops, op, entries, idx, q, fetched,
                   calls, debug, status, raw, result, queues0>>

\* ... and returns or raises; the loop goes on only when it returned
ChunkReturned(p) ==
    /\ pc[p] = "sending"
    /\ \E ok \in BOOLEAN :
         /\ calls' = [calls EXCEPT ![p] =
                        Append(@, Call("send_messages", op[p].queue_name,
                                       Head(pending[p]).queue, Head(pending[p]).Entries,
                                       <<>>, ok))]
         /\ pending' = [pending EXCEPT ![p] = Tail(@)]
         /\ LET next == AfterChunk(idx[p], Len(entries[p]), ok) IN
              /\ pc' = [pc EXCEPT ![p] = IF next = "send" THEN "send" ELSE "idle"]
              /\ status' = [status EXCEPT ![p] =
                              CASE next = "raise" -> "ProviderError"
                                [] next = "return" -> "ok"
                                [] OTHER -> @]
         /\ idx' = [idx EXCEPT ![p] = IF ok THEN NextStart(@) ELSE @]
    /\ UNCHANGED <<client, queues, handles, lookupLog, nops, op, entries, q, fetched,
                   debug, raw, result, queues0>>

\* ------------------------------------------------------------ specification
\* one caller using the client
Next ==
    \/ SqsInit
    \/ GetQueueCall(Caller)
    \/ GetMessagesCall(Caller)
    \/ DeleteMessagesCall(Caller)
    \/ SendMessagesCall(Caller)
    \/ GetQueueCheck(Caller)
    \/ GetQueueByName(Caller)
    \/ StoreQueue(Caller)
    \/ ReturnQueue(Caller)
    \/ ReceiveMessages(Caller)
    \/ DeleteMessages(Caller)
    \/ SendChunk(Caller)
    \/ ChunkReturned(Caller)

Spec == Init /\ [][Next]_vars

\* two callers using one client without a lock: their steps interleave.  They
\* resolve, delete and send, and the lists they pass are short ones (for a
\* send: none, two chunks, three chunks).
ConcSendInputs ==
    { [messages |-> SendInput(n, 0, 0), group_id |-> None, seed |-> 0] :
        n \in {0, MAX_SEND_MESSAGES_NUM + 1, 2 * MAX_SEND_MESSAGES_NUM + 1} }

ConcDeleteInputs ==
    { [i \in 1..n |-> Message(i, PyStr("raw", i))] : n \in {0, 2} }

NextConc ==
    \/ SqsInit
    \/ \E p \in Procs :
         \/ GetQueueCall(p)
         \/ DeleteMessagesOf(p, ConcDeleteInputs)
         \/ SendMessagesOf(p, ConcSendInputs)
         \/ GetQueueCheck(p)
         \/ GetQueueByName(p)
         \/ StoreQueue(p)
         \/ ReturnQueue(p)
         \/ DeleteMessages(p)
         \/ SendChunk(p)
         \/ ChunkReturned(p)

SpecConc == Init /\ [][NextConc]_vars


\* ------------------------------------------------------------ properties
\* the caller's operation has ended (returned or raised)
Done == pc[Caller] = "idle" /\ status[Caller] \notin {"none", "running"}

Fn == op[Caller].fn
QueueName == op[Caller].queue_name
Messages == op[Caller].messages

CallsOf(fn) == SelectSeq(calls[Caller], LAMBDA c : c.fn = fn)

\* C1, as claimed: whatever the outcome of each provider call,
\* get_queue_by_name is invoked at most once for a name.
C1_LookupAtMostOnce ==
    \A n \in Names : Len(lookupLog[n]) <= 1

\* C1, amended: for each name get_queue_by_name returns a queue at most once
\* and is never invoked again once it has; only a lookup that raised is
\* followed by another lookup for the name.
C1_NoLookupAfterSuccess ==
    \A n \in Names : \A i \in 1..Len(lookupLog[n]) :
        lookupLog[n][i] = "ok" => i = Len(lookupLog[n])

\* a second operation on a name the first one resolved has ended, having
\* made no lookup
C1_Witness ==
    /\ Done
    /\ nops >= 2
    /\ Fn \in {"get_messages", "delete_messages", "send_messages"}
    /\ calls[Caller] # <<>>
    /\ CallsOf("get_queue_by_name") = <<>>
    /\ lookupLog[QueueName] = <<"ok">>

\* C2: _get_queue on a name that has an entry returns the stored handle,
\* makes no provider call and leaves the dict as it was; on a name without
\* entry it makes exactly one get_queue_by_name call for that name and, when
\* that call returns, stores what it returned under the name (and nothing
\* else) and returns it.
C2_GetQueue ==
    (Done /\ Fn = "_get_queue") =>
        IF queues0[Caller][QueueName] # None
          THEN /\ status[Caller] = "ok"
               /\ q[Caller] = queues0[Caller][QueueName]
               /\ calls[Caller] = <<>>
               /\ queues = queues0[Caller]
          ELSE /\ Len(calls[Caller]) = 1
               /\ calls[Caller][1].fn = "get_queue_by_name"
               /\ calls[Caller][1].QueueName = QueueName
               /\ calls[Caller][1].ok =>
                    /\ status[Caller] = "ok"
                    /\ q[Caller] = fetched[Caller]
                    /\ q[Caller] # None
                    /\ queues = [queues0[Caller] EXCEPT ![QueueName] = q[Caller]]

\* the second of two resolves of a name has returned the handle the first
\* one's only lookup stored
C2_Witness ==
    /\ Done
    /\ Fn = "_get_queue"
    /\ nops = 2
    /\ lookupLog[QueueName] = <<"ok">>
    /\ calls[Caller] = <<>>
    /\ q[Caller] = queues[QueueName]
    /\ q[Caller] # None

\* C3: an entry of self._queues, once made, is never removed or replaced.
C3_Monotonic ==
    [][\A n \in Names : queues[n] # None => queues'[n] = queues[n]]_vars

\* both names are resolved: the entry made first outlived the second resolve
C3_Witness ==
    /\ Done
    /\ \A n \in Names : queues[n] # None /\ lookupLog[n] = <<"ok">>


\* the entry lists of a sequence of provider calls, one after the other
RECURSIVE Concat(_)
Concat(cs) == IF cs = <<>> THEN <<>> ELSE Head(cs).Entries \o Concat(Tail(cs))

SendCalls == CallsOf("send_messages")
DeleteCalls == CallsOf("delete_messages")

\* a send_messages of at least one message, all of them dicts or strs
ValidSend ==
    /\ Fn = "send_messages"
    /\ Len(Messages) >= 1
    /\ \A i \in 1..Len(Messages) : Messages[i].type \in {"dict", "str"}

\* C4: a send of n >= 1 valid messages whose provider calls all succeed
\* issues ceil(n / 10) send calls, each of 1 to 10 entries, all but the last
\* of exactly 10 and the last of n - 10 * (ceil(n / 10) - 1).
C4_ChunkSizes ==
    (Done /\ ValidSend /\ status[Caller] = "ok") =>
        LET n == Len(Messages)
            c == (n + MAX_SEND_MESSAGES_NUM - 1) \div MAX_SEND_MESSAGES_NUM
        IN /\ Len(SendCalls) = c
           /\ \A k \in 1..c :
                /\ Len(SendCalls[k].Entries) \in 1..MAX_SEND_MESSAGES_NUM
                /\ k < c => Len(SendCalls[k].Entries) = MAX_SEND_MESSAGES_NUM
                /\ k = c => Len(SendCalls[k].Entries) = n - MAX_SEND_MESSAGES_NUM * (c - 1)

\* 22 messages went out as 10, 10, 2
C4_Witness ==
    /\ Done /\ ValidSend /\ status[Caller] = "ok"
    /\ Len(Messages) = 2 * MAX_SEND_MESSAGES_NUM + 2
    /\ Len(SendCalls) = 3
    /\ Len(SendCalls[1].Entries) = MAX_SEND_MESSAGES_NUM
    /\ Len(SendCalls[2].Entries) = MAX_SEND_MESSAGES_NUM
    /\ Len(SendCalls[3].Entries) = 2

\* C5: in a send whose provider calls all succeed, the entries of the send
\* calls, in the order of the calls, are one per message and the i-th one's
\* body is the i-th message: the message itself for a str, its JSON text for
\* a dict.
C5_EntriesInOrder ==
    (Done /\ ValidSend /\ status[Caller] = "ok") =>
        LET sent == Concat(SendCalls) IN
          /\ Len(sent) = Len(Messages)
          /\ \A i \in 1..Len(sent) :
               /\ sent[i].MessageBody.type = "str"
               /\ sent[i].MessageBody.val = Messages[i].val
               /\ Messages[i].type = "str" => sent[i].MessageBody = Messages[i]
               /\ Messages[i].type = "dict" => sent[i].MessageBody.enc = "json"

\* a send of dicts and strs that needed more than one chunk has returned
C5_Witness ==
    /\ Done /\ ValidSend /\ status[Caller] = "ok"
    /\ Len(SendCalls) >= 2
    /\ \E i, j \in 1..Len(Messages) : Messages[i].type = "dict" /\ Messages[j].type = "str"
    /\ Len(Concat(SendCalls)) > MAX_SEND_MESSAGES_NUM

\* a send_messages one of whose messages is neither a dict nor a str
InvalidSend ==
    /\ Fn = "send_messages"
    /\ \E i \in 1..Len(Messages) : Messages[i].type \notin {"dict", "str"}

\* C6: a send with a message that is neither a dict nor a str, wherever it
\* is in the list, ends in TypeError without any provider call (no lookup,
\* no send) and with self._queues as it was.
C6_InvalidTypeNoCalls ==
    InvalidSend =>
        /\ pc[Caller] = "idle"
        /\ status[Caller] = "TypeError"
        /\ calls[Caller] = <<>>
        /\ pending[Caller] = <<>>
        /\ queues = queues0[Caller]

\* the offending message was beyond the first chunk, behind valid ones
C6_Witness ==
    /\ InvalidSend
    /\ status[Caller] = "TypeError"
    /\ \A i \in 1..MAX_SEND_MESSAGES_NUM : Messages[i].type \in {"dict", "str"}
    /\ \E i \in (MAX_SEND_MESSAGES_NUM + 1)..Len(Messages) : Messages[i].type = "int"

\* C7: when the send call of chunk k raises, the operation ends with that
\* failure; the calls it has issued are the lookup (if any) and the chunks
\* 1..k in order, once each, 1..k-1 having succeeded, and nothing is issued
\* after the call that failed.
C7_FailureStopsSend ==
    (Fn = "send_messages" /\ \E j \in 1..Len(calls[Caller]) :
        calls[Caller][j].fn = "send_messages" /\ ~calls[Caller][j].ok) =>
        LET k == Len(SendCalls) IN
          /\ pc[Caller] = "idle"
          /\ status[Caller] = "ProviderError"
          /\ ~calls[Caller][Len(calls[Caller])].ok
          /\ \A j \in 1..Len(calls[Caller]) :
               calls[Caller][j].fn \in {"get_queue_by_name", "send_messages"}
          /\ \A j \in 1..k :
               /\ SendCalls[j].ok = (j < k)
               /\ SendCalls[j].Entries =
                    SubSeq(entries[Caller], MAX_SEND_MESSAGES_NUM * (j - 1) + 1,
                           Min(MAX_SEND_MESSAGES_NUM * j, Len(entries[Caller])))
          /\ MAX_SEND_MESSAGES_NUM * (k - 1) < Len(entries[Caller])

\* the second of three chunks failed: one chunk is sent, the third never is
C7_Witness ==
    /\ Done
    /\ Fn = "send_messages"
    /\ status[Caller] = "ProviderError"
    /\ Len(entries[Caller]) > 2 * MAX_SEND_MESSAGES_NUM
    /\ Len(SendCalls) = 2
    /\ SendCalls[1].ok
    /\ ~SendCalls[2].ok

\* C8: delete_messages with an empty list makes no provider call, leaves
\* self._queues as it was and logs exactly one debug line; no delete call
\* ever carries an empty entry list.
C8_DeleteEmpty ==
    /\ (Fn = "delete_messages" /\ Len(Messages) = 0) =>
          /\ pc[Caller] = "idle"
          /\ status[Caller] = "ok"
          /\ calls[Caller] = <<>>
          /\ pending[Caller] = <<>>
          /\ queues = queues0[Caller]
          /\ Len(debug[Caller]) = 1
    /\ \A j \in 1..Len(DeleteCalls) : DeleteCalls[j].Entries # <<>>

\* an empty delete on a client that has a queue cached
C8_Witness ==
    /\ Done
    /\ Fn = "delete_messages"
    /\ Len(Messages) = 0
    /\ Len(debug[Caller]) = 1
    /\ \E n \in Names : queues[n] # None

\* C9: a delete_messages of n >= 1 messages whose queue resolves issues
\* exactly one delete call, of n entries, the i-th pairing the MessageId
\* and the ReceiptHandle of the i-th message.
C9_DeleteOneCall ==
    (Done /\ Fn = "delete_messages" /\ Len(Messages) >= 1 /\ q[Caller] # None) =>
        /\ Len(DeleteCalls) = 1
        /\ Len(DeleteCalls[1].Entries) = Len(Messages)
        /\ \A i \in 1..Len(Messages) :
             /\ DeleteCalls[1].Entries[i].Id = Messages[i].MessageId
             /\ DeleteCalls[1].Entries[i].ReceiptHandle = Messages[i].ReceiptHandle

\* more messages than a provider batch holds went out in one delete call
C9_Witness ==
    /\ Done
    /\ Fn = "delete_messages"
    /\ status[Caller] = "ok"
    /\ Len(Messages) > MAX_RECEIVE_MESSAGES_NUM
    /\ Len(DeleteCalls) = 1
    /\ Len(DeleteCalls[1].Entries) = Len(Messages)

\* C10: send_messages with an empty list issues no send call and no lookup,
\* leaves self._queues as it was and logs one debug line.
C10_SendEmpty ==
    (Fn = "send_messages" /\ Len(Messages) = 0) =>
        /\ pc[Caller] = "idle"
        /\ status[Caller] = "ok"
        /\ calls[Caller] = <<>>
        /\ pending[Caller] = <<>>
        /\ queues = queues0[Caller]
        /\ Len(debug[Caller]) = 1
        /\ debug[Caller][1].msg = "Message is empty. Not sending any messages."

\* an empty send on a name that is not resolved: it stays unresolved
C10_Witness ==
    /\ Done
    /\ Fn = "send_messages"
    /\ Len(Messages) = 0
    /\ nops >= 1
    /\ queues[QueueName] = None
    /\ lookupLog[QueueName] = <<>>


\* C11: in a send, when group_id is not None (0 included) every entry of
\* every chunk has MessageGroupId equal to it; when group_id is None no entry
\* of any chunk has a MessageGroupId key.
C11_GroupId ==
    Fn = "send_messages" =>
        \A k \in 1..Len(SendCalls) : \A i \in 1..Len(SendCalls[k].Entries) :
            LET e == SendCalls[k].Entries[i] IN
              IF op[Caller].group_id # None
                THEN "MessageGroupId" \in DOMAIN e /\ e.MessageGroupId = op[Caller].group_id
                ELSE "MessageGroupId" \notin DOMAIN e

\* a send with group_id 0 went out in more than one chunk
C11_Witness ==
    /\ Done
    /\ Fn = "send_messages"
    /\ status[Caller] = "ok"
    /\ op[Caller].group_id = 0
    /\ Len(SendCalls) >= 2
    /\ \A k \in 1..Len(SendCalls) : \A i \in 1..Len(SendCalls[k].Entries) :
         SendCalls[k].Entries[i].MessageGroupId = 0


ReceiveCalls == CallsOf("receive_messages")

\* C12: a get_messages never issues more than one receive call, and one
\* whose queue resolves issues exactly one, whatever it returns, carrying the
\* caller's attribute names, maximum number and wait time unchanged.
C12_OneReceive ==
    Fn = "get_messages" =>
        /\ Len(ReceiveCalls) <= 1
        /\ (Done /\ q[Caller] # None) => Len(ReceiveCalls) = 1
        /\ \A k \in 1..Len(ReceiveCalls) :
             ReceiveCalls[k].params =
                <<op[Caller].attrs, <<op[Caller].num_msg, op[Caller].timeout>>>>

\* a receive with the caller's own parameters returned no message and was
\* not repeated
C12_Witness ==
    /\ Done
    /\ Fn = "get_messages"
    /\ status[Caller] = "ok"
    /\ raw[Caller] = <<>>
    /\ Len(ReceiveCalls) = 1
    /\ ReceiveCalls[1].params = <<<<>>, <<2, 4>>>>


\* C13: a get_messages that returns gives one message per message of the
\* provider, in the provider's order, with receipt handle, message id,
\* message attributes, queue URL and attributes copied; the body is the
\* decoded value when is_json and the provider's text itself otherwise.
C13_ReceiveMapping ==
    (Done /\ Fn = "get_messages" /\ status[Caller] = "ok") =>
        /\ Len(result[Caller]) = Len(raw[Caller])
        /\ \A i \in 1..Len(raw[Caller]) :
             LET r == raw[Caller][i]
                 m == result[Caller][i]
             IN /\ m.ReceiptHandle = r.receipt_handle
                /\ m.MessageId = r.message_id
                /\ m.MessageAttributes = r.message_attributes
                /\ m.QueueUrl = r.queue_url
                /\ m.Attributes = r.attributes
                /\ op[Caller].is_json => m.Body.type = "dict" /\ m.Body.val = r.body.val
                /\ ~op[Caller].is_json => m.Body = r.body

\* two JSON bodies were received and decoded
C13_Witness ==
    /\ Done
    /\ Fn = "get_messages"
    /\ status[Caller] = "ok"
    /\ op[Caller].is_json
    /\ Len(result[Caller]) = 2
    /\ result[Caller][1].Body.type = "dict"
    /\ result[Caller][1].MessageId # result[Caller][2].MessageId

\* C14: with is_json, when the body of any message the provider returned
\* cannot be decoded, wherever it is in the list, get_messages raises and
\* returns no list, not even the messages before the malformed one.
C14_MalformedBody ==
    (Done /\ Fn = "get_messages" /\ op[Caller].is_json
          /\ \E i \in 1..Len(raw[Caller]) : raw[Caller][i].body.enc # "json") =>
        /\ status[Caller] = "JSONDecodeError"
        /\ result[Caller] = <<>>

\* the malformed body came second, behind a well-formed one
C14_Witness ==
    /\ Done
    /\ Fn = "get_messages"
    /\ op[Caller].is_json
    /\ Len(raw[Caller]) = 2
    /\ raw[Caller][1].body.enc = "json"
    /\ raw[Caller][2].body.enc = "raw"
    /\ status[Caller] = "JSONDecodeError"


\* C15: Sqs(boto) with a boto that is not a Boto3 raises NotImplementedError
\* and gives no client (no operation ever runs); when it succeeds the client
\* starts with an empty self._queues and no lookup made.
C15_Construction ==
    /\ (client.state # "none" /\ client.boto # "Boto3") =>
          /\ client.state = "NotImplementedError"
          /\ nops = 0
          /\ \A p \in Procs : pc[p] = "idle" /\ calls[p] = <<>>
    /\ (client.state = "Sqs" /\ nops = 0) =>
          /\ \A n \in Names : queues[n] = None /\ lookupLog[n] = <<>>
          /\ handles = 0
    /\ nops > 0 => client.state = "Sqs" /\ client.boto = "Boto3"

\* a mock was refused
C15_Witness ==
    /\ client.boto = "MagicMock"
    /\ client.state = "NotImplementedError"


\* C16: when a provider call of an operation fails (the lookup, the receive,
\* the delete or a send chunk), the operation ends in that failure: nothing
\* is issued after the failed call, so it is not repeated, and the operation
\* neither returns normally nor returns a result.
C16_FailurePropagates ==
    \A j \in 1..Len(calls[Caller]) :
        ~calls[Caller][j].ok =>
            /\ j = Len(calls[Caller])
            /\ pc[Caller] = "idle"
            /\ status[Caller] = "ProviderError"
            /\ result[Caller] = <<>>

\* the delete call failed after the queue was looked up
C16_Witness ==
    /\ Done
    /\ Fn = "delete_messages"
    /\ status[Caller] = "ProviderError"
    /\ Len(calls[Caller]) = 2
    /\ calls[Caller][1].fn = "get_queue_by_name" /\ calls[Caller][1].ok
    /\ calls[Caller][2].fn = "delete_messages" /\ ~calls[Caller][2].ok


\* C17: an operation on queue name A issues no lookup for another name and
\* leaves every other name's entry, present or absent, as it was; all it can
\* change in self._queues is to add the entry of its own name.
C17_PerNameFrame ==
    Fn # "none" =>
        /\ \A n \in Names \ {QueueName} : queues[n] = queues0[Caller][n]
        /\ \A j \in 1..Len(calls[Caller]) :
             calls[Caller][j].fn = "get_queue_by_name" => calls[Caller][j].QueueName = QueueName
        /\ queues[QueueName] # queues0[Caller][QueueName] =>
             queues0[Caller][QueueName] = None

\* with one name resolved, an operation resolved the other one
C17_Witness ==
    /\ Done
    /\ \E n \in Names \ {QueueName} :
         /\ queues0[Caller][n] # None
         /\ queues[n] = queues0[Caller][n]
    /\ queues0[Caller][QueueName] = None
    /\ queues[QueueName] # None
    /\ Len(CallsOf("get_queue_by_name")) = 1


\* a caller that has made the assignment of _get_queue in its operation
HasStored(p) ==
    /\ fetched[p] # None
    /\ pc[p] \notin {"lookup", "store"}

\* C18: with two callers and no lock, each store writes the storing
\* caller's own lookup result over whatever entry the name has by then (last
\* write wins); a state is reachable where get_queue_by_name was invoked
\* twice for one name and one caller's entry was overwritten by the other's.
C18_LastWriteWins ==
    [][\A p \in Procs :
          (pc[p] = "store" /\ pc'[p] # "store") =>
              queues'[op[p].queue_name] = fetched[p]]_vars

\* both callers resolved the same unresolved name: two lookups, two stores,
\* and the entry is the one of the caller that stored last
C18_Witness ==
    /\ op["c1"].queue_name = op["c2"].queue_name
    /\ lookupLog[op["c1"].queue_name] = <<"ok", "ok">>
    /\ HasStored("c1") /\ HasStored("c2")
    /\ fetched["c1"] # fetched["c2"]
    /\ queues[op["c1"].queue_name] = fetched["c2"]
    /\ q["c1"] = fetched["c1"]


\* the queue objects the caller's operation has called or is calling
QueuesUsed ==
    { calls[Caller][j].queue : j \in { i \in 1..Len(calls[Caller]) :
                                        calls[Caller][i].fn # "get_queue_by_name" } }
    \cup { pending[Caller][j].queue : j \in 1..Len(pending[Caller]) }

\* C19: a receive, delete or send call is made only once _get_queue has
\* resolved the operation's queue: self._queues then has an entry for the
\* queue name and the call is made on that very handle; an operation looks
\* up at most once, for its own name, before any such call.
C19_ResolvedBeforeCall ==
    /\ \A h \in QueuesUsed : h # None /\ h = queues[QueueName]
    /\ Len(CallsOf("get_queue_by_name")) <= 1
    /\ \A j \in 2..Len(calls[Caller]) : calls[Caller][j].fn # "get_queue_by_name"

\* a delete went to the handle cached by an earlier operation
C19_Witness ==
    /\ Done
    /\ Fn = "delete_messages"
    /\ Len(calls[Caller]) = 1
    /\ calls[Caller][1].fn = "delete_messages"
    /\ calls[Caller][1].queue = queues0[Caller][QueueName]
    /\ calls[Caller][1].queue # None


\* the send calls of caller p's operation that have ended
SendCallsOf(p) == SelectSeq(calls[p], LAMBDA c : c.fn = "send_messages")

\* the j-th slice of MAX_SEND_MESSAGES_NUM entries of caller p's entry list
Slice(p, j) ==
    SubSeq(entries[p], MAX_SEND_MESSAGES_NUM * (j - 1) + 1,
           Min(MAX_SEND_MESSAGES_NUM * j, Len(entries[p])))

\* C20: in each send, also when the other caller's steps interleave with
\* it, at most one provider call is outstanding; the calls that have ended
\* are the chunks 1..k in order; and chunk k+1 is outstanding or a later
\* chunk has ended only when every chunk before it returned successfully.
C20_ChunksSequential ==
    \A p \in Procs :
        op[p].fn = "send_messages" =>
            LET S == SendCallsOf(p)
                k == Len(S)
            IN /\ Len(pending[p]) <= 1
               /\ \A j \in 1..k : S[j].Entries = Slice(p, j)
               /\ \A j \in 1..(k - 1) : S[j].ok
               /\ pending[p] # <<>> =>
                    /\ \A j \in 1..k : S[j].ok
                    /\ pending[p][1].Entries = Slice(p, k + 1)

\* both callers are in a send with a call outstanding, one of them on its
\* second chunk
C20_Witness ==
    /\ pc["c1"] = "sending" /\ pc["c2"] = "sending"
    /\ Len(SendCallsOf("c1")) = 1
    /\ SendCallsOf("c1")[1].ok
    /\ pending["c1"][1].Entries = Slice("c1", 2)
    /\ Len(pending["c2"]) = 1


\* C21: an operation logs at most one debug line, and a get_messages,
\* delete_messages or send_messages that returns normally has logged exactly
\* one: get_messages the number of messages receive_messages returned and
\* the queue name; delete_messages and send_messages the whole entry list
\* (once, whatever the number of chunks) for a non-empty list, and the fixed
\* line about an empty list otherwise.
C21_DebugOnce ==
    /\ Len(debug[Caller]) <= 1
    /\ (Done /\ status[Caller] = "ok" /\ Fn # "_get_queue") =>
          /\ Len(debug[Caller]) = 1
          /\ LET d == debug[Caller][1] IN
               CASE Fn = "get_messages" ->
                      /\ d.msg = "Recieved %s messages from %s queue"
                      /\ d.count = Len(raw[Caller])
                      /\ d.name = QueueName
                 [] Fn = "delete_messages" /\ Len(Messages) > 0 ->
                      /\ d.msg = "Removing following messages: %s"
                      /\ Len(d.list) = Len(Messages)
                      /\ d.list = DeleteCalls[1].Entries
                 [] Fn = "delete_messages" /\ Len(Messages) = 0 ->
                      /\ d.msg = "Messages list is empty. Not deleting any messages."
                      /\ d.list = <<>>
                 [] Fn = "send_messages" /\ Len(Messages) > 0 ->
                      /\ d.msg = "Sending following messages: %s"
                      /\ Len(d.list) = Len(Messages)
                      /\ d.list = Concat(SendCalls)
                 [] Fn = "send_messages" /\ Len(Messages) = 0 ->
                      /\ d.msg = "Message is empty. Not sending any messages."
                      /\ d.list = <<>>

\* a send of three chunks has returned with one debug line, which lists the
\* entries of all three
C21_Witness ==
    /\ Done
    /\ Fn = "send_messages"
    /\ status[Caller] = "ok"
    /\ Len(SendCalls) = 3
    /\ Len(debug[Caller]) = 1
    /\ Len(debug[Caller][1].list) = Len(Messages)
    /\ debug[Caller][1].list = Concat(SendCalls)


\* the operation is one that resolves its queue: it reaches _get_queue
Resolves ==
    \/ Fn \in {"_get_queue", "get_messages"}
    \/ Fn = "delete_messages" /\ Len(Messages) > 0
    \/ ValidSend

\* the outcomes of the lookups for the operation's name made before the
\* operation was called
LookupsBefore ==
    SubSeq(lookupLog[QueueName], 1,
           Len(lookupLog[QueueName]) - Len(CallsOf("get_queue_by_name")))

\* C22: when get_queue_by_name raises in an operation, the operation ends in
\* that failure having made no other provider call (no receive, delete or
\* send, none outstanding), and self._queues is exactly what it was when the
\* operation was called, without an entry for the name; an operation on a
\* name whose last lookup raised finds no entry, and when it resolves its
\* queue its first provider call is a lookup for the name again.
C22_LookupFailure ==
    /\ (\E j \in 1..Len(calls[Caller]) :
            calls[Caller][j].fn = "get_queue_by_name" /\ ~calls[Caller][j].ok) =>
          /\ pc[Caller] = "idle"
          /\ status[Caller] = "ProviderError"
          /\ Len(calls[Caller]) = 1
          /\ pending[Caller] = <<>>
          /\ result[Caller] = <<>>
          /\ queues = queues0[Caller]
          /\ queues[QueueName] = None
    /\ (Fn # "none" /\ LookupsBefore # <<>>
           /\ LookupsBefore[Len(LookupsBefore)] = "fail") =>
          /\ queues0[Caller][QueueName] = None
          /\ calls[Caller] # <<>> =>
               /\ calls[Caller][1].fn = "get_queue_by_name"
               /\ calls[Caller][1].QueueName = QueueName
          /\ (Done /\ Resolves) => Len(CallsOf("get_queue_by_name")) = 1

\* the lookup of an operation raised, and the next one on the name, a send,
\* found no entry, looked the name up again and went out
C22_Witness ==
    /\ Done
    /\ Fn = "send_messages"
    /\ status[Caller] = "ok"
    /\ lookupLog[QueueName] = <<"fail", "ok">>
    /\ Len(calls[Caller]) >= 2
    /\ calls[Caller][1].fn = "get_queue_by_name"
    /\ calls[Caller][2].fn = "send_messages"
    /\ queues0[Caller][QueueName] = None
    /\ queues[QueueName] # None

====
